---- MODULE Spec2Model ----
(***************************************************************************)
(* Model of bots/tasks/deliver_webhook_task.py: the Celery task            *)
(* deliver_webhook(self, delivery_id), the WebhookDeliveryAttempt rows it  *)
(* loads, mutates and saves, and the message queue that invokes it.        *)
(***************************************************************************)
EXTENDS Integers, Sequences, FiniteSets, TLC

(* ------------------------------ bounds -------------------------------- *)

\* Total number of task invocations the workers start.
MaxInvocations == 2

\* The same, for the runs of one worker on one delivery (RetrySpec).
MaxRetryInvocations == 6

\* Messages waiting in the queue, over all delivery ids.
MaxPending == 1

\* response.text[:10000], scaled down to sequences of a few characters.
BodyLimit == 2

(* ------------------------- program constants -------------------------- *)

\* @shared_task(..., max_retries=5)
max_retries == 5

\* Python's None for the nullable columns (timestamps, response code).
None == 0

\* WebhookDeliveryAttemptStatus members.
PENDING == "PENDING"
SUCCESS == "SUCCESS"
FAILURE == "FAILURE"

\* The string literal the inactive-subscription branch assigns to status.
FailedLiteral == "failed"

InactiveMessage == "Webhook subscription is no longer active"

(* ----------------------------- universe ------------------------------- *)

Workers == {"w1", "w2"}

\* Rows of WebhookDeliveryAttempt that exist, and one id that resolves to none.
Attempts == {"a1", "a2"}
MissingIds == {"a0"}
DeliveryIds == Attempts \cup MissingIds

\* A worker that is not running the task has no delivery_id.
NoId == "none"

Subscriptions == {"s1"}

\* delivery.webhook_subscription
webhook_subscription == [a \in Attempts |-> "s1"]

\* subscription.url and delivery.webhook_event_type
url == [s \in Subscriptions |-> "https://s1.example/hook"]
webhook_event_type == [a \in Attempts |-> "bot.state_change"]

\* What the destination may answer: <<status_code, text>>, with texts
\* shorter than, as long as and longer than the stored prefix.
Responses ==
    { <<200, <<1>>>>, <<299, <<1, 2, 3>>>>, <<199, <<1>>>>,
      <<300, <<1, 2>>>>, <<500, <<1, 2, 3>>>> }

VARIABLES
    db,             \* WebhookDeliveryAttempt table: id -> persisted row
    is_active,      \* subscription.is_active
    has_secret,     \* subscription.secrets.filter(is_active=True) is non-empty
    pending,        \* messages in the queue: id -> number waiting
    clock,          \* invocations started so far; timezone.now() reads it
    pc,             \* where each worker is in deliver_webhook
    delivery_id,    \* the argument of each worker's current invocation
    delivery,       \* the in-memory model instance of each worker
    posts,          \* requests.post calls made by the worker's invocation
    caught,         \* the invocation went through except RequestException
    last,           \* the invocation that ended most recently
    log             \* logger.error records emitted

vars == <<db, is_active, has_secret, pending, clock, pc, delivery_id, delivery,
          posts, caught, last, log>>

\* A freshly created WebhookDeliveryAttempt row.
NewAttempt ==
    [ status               |-> PENDING,
      error_message        |-> "",
      attempt_count        |-> 0,
      last_attempt_at      |-> None,
      succeeded_at         |-> None,
      response_status_code |-> None,
      response_body_list   |-> << >> ]

\* The local variable delivery before objects.get and after the return.
NoDelivery == [NewAttempt EXCEPT !.status = "unloaded"]

\* As Truncate, but cutting only bodies more than one unit over the limit.
TruncateLate(text) ==
    IF Len(text) > BodyLimit + 1 THEN SubSeq(text, 1, BodyLimit) ELSE text

\* response.text[:10000]
Truncate(text) ==
    IF Len(text) > BodyLimit THEN SubSeq(text, 1, BodyLimit) ELSE text

\* As Is2xx, but counting 300 as a success.
Is2xxInclusive(code) == 200 <= code /\ code <= 300

\* 200 <= response.status_code < 300
Is2xx(code) == 200 <= code /\ code < 300

\* timezone.now()
Now == clock

\* How one invocation ended: its argument, the exit it took, and the
\* delivery.save() and requests.post calls it made.
Ended(id, exit, nsaves, nposts) ==
    [id |-> id, exit |-> exit, saves |-> nsaves, posts |-> nposts]

NoInvocation == Ended(NoId, "none", 0, 0)

Init ==
    /\ db = [a \in Attempts |-> NewAttempt]
    /\ is_active = [s \in Subscriptions |-> TRUE]
    /\ has_secret = [s \in Subscriptions |-> TRUE]
    /\ pending = [d \in DeliveryIds |-> 0]
    /\ clock = 0
    /\ pc = [w \in Workers |-> "idle"]
    /\ delivery_id = [w \in Workers |-> NoId]
    /\ delivery = [w \in Workers |-> NoDelivery]
    /\ posts = [w \in Workers |-> 0]
    /\ caught = [w \in Workers |-> FALSE]
    /\ last = NoInvocation
    /\ log = {}

(* ------------------- the mutations deliver_webhook makes --------------- *)

\* As MarkInactive, but counting the stopped invocation as an attempt.
MarkInactiveCounts(d) ==
    [d EXCEPT !.status = FailedLiteral, !.error_message = InactiveMessage,
              !.attempt_count = @ + 1]

\* delivery.status = "failed"; delivery.error_message = "...no longer active"
MarkInactive(d) ==
    [d EXCEPT !.status = FailedLiteral, !.error_message = InactiveMessage]

\* As BeginAttempt, but assigning 1 where the code adds 1.
BeginAttemptAssigns(d, now) ==
    [d EXCEPT !.attempt_count = 1, !.last_attempt_at = now]

\* delivery.attempt_count += 1; delivery.last_attempt_at = timezone.now()
BeginAttempt(d, now) ==
    [d EXCEPT !.attempt_count = @ + 1, !.last_attempt_at = now]

\* As RecordResponse, but assigning a one-entry list where the code appends.
RecordResponseOverwrites(d, code, text) ==
    [d EXCEPT !.response_status_code = code,
              !.response_body_list = <<Truncate(text)>>]

\* As RecordResponse, but appending the body twice.
RecordResponseAppendsTwice(d, code, text) ==
    [d EXCEPT !.response_status_code = code,
              !.response_body_list = Append(Append(@, Truncate(text)),
                                            Truncate(text))]

\* delivery.response_status_code = response.status_code
\* delivery.response_body_list.append(response.text[:10000])
RecordResponse(d, code, text) ==
    [d EXCEPT !.response_status_code = code,
              !.response_body_list = Append(@, Truncate(text))]

\* delivery.status = SUCCESS; delivery.succeeded_at = timezone.now()
MarkSuccess(d, now) ==
    [d EXCEPT !.status = SUCCESS, !.succeeded_at = now]

\* delivery.status = FAILURE (non-2xx response, or RequestException)
MarkFailure(d) ==
    [d EXCEPT !.status = FAILURE]

\* logger.error(...) records: what is logged, and about which delivery.
NotFoundLog(id) == [kind |-> "not_found", id |-> id]

\* As IsLastRetry, but comparing with > where the code compares with >=.
IsLastRetryStrict(d) ==
    d.attempt_count > max_retries /\ d.status = FAILURE

\* if delivery.attempt_count >= self.max_retries and status == FAILURE
IsLastRetry(d) ==
    d.attempt_count >= max_retries /\ d.status = FAILURE

\* logger.error(f"Webhook delivery failed after {attempt_count} attempts.
\*   Webhook ID: {delivery.id}, URL: {subscription.url},
\*   Event: {delivery.webhook_event_type}, Status: {delivery.status}")
FinalFailureLog(id, d) ==
    [ kind     |-> "final_failure",
      attempts |-> d.attempt_count,
      id       |-> id,
      url      |-> url[webhook_subscription[id]],
      event    |-> webhook_event_type[id],
      status   |-> d.status ]

\* As Saved, but writing the row over every stored delivery.
SavedAll(id, d) == [a \in Attempts |-> d]

\* The table after delivery.save() has written the row.
Saved(id, d) == [db EXCEPT ![id] = d]

(* ------------------------------ the queue ------------------------------ *)

\* An invocation of the task on this delivery id is in progress.
InFlight(id) ==
    \E w \in Workers : pc[w] # "idle" /\ delivery_id[w] = id

\* The queue hands one delivery id to one worker at a time.
SerializedPerAttempt(id) == ~InFlight(id)

RECURSIVE SumOver(_, _)
SumOver(f, S) ==
    IF S = {} THEN 0
    ELSE LET x == CHOOSE y \in S : TRUE IN f[x] + SumOver(f, S \ {x})

\* Messages waiting in the queue.
QueueLength == SumOver(pending, DeliveryIds)

\* As AfterTask, but re-queueing the delivery (self.retry()) at every end.
AfterTaskRetries(id) == [pending EXCEPT ![id] = @ + 1]

\* What the task itself puts on the queue when it ends: nothing. The body
\* never calls self.retry(), and the decorator names no autoretry_for, so
\* neither a return nor an exception schedules another run.
AfterTask(id) == pending

\* deliver_webhook.delay(id): a caller puts a message on the queue.
Enqueue(id) ==
    /\ QueueLength < MaxPending
    /\ pending' = [pending EXCEPT ![id] = @ + 1]
    /\ UNCHANGED <<db, is_active, has_secret, clock, pc, delivery_id, delivery,
                   posts, caught, last, log>>

\* A worker takes a message and calls deliver_webhook(self, delivery_id).
Invoke(w, id, limit) ==
    /\ pc[w] = "idle"
    /\ pending[id] > 0
    /\ SerializedPerAttempt(id)
    /\ clock < limit
    /\ pending' = [pending EXCEPT ![id] = @ - 1]
    /\ clock' = clock + 1
    /\ pc' = [pc EXCEPT ![w] = "get"]
    /\ delivery_id' = [delivery_id EXCEPT ![w] = id]
    /\ UNCHANGED <<db, is_active, has_secret, delivery, posts, caught, last, log>>

Start(w, id) == Invoke(w, id, MaxInvocations)

(* --------------------------- deliver_webhook --------------------------- *)

\* The invocation of worker w ends (return, or an uncaught exception).
Return(w, exit, nsaves, nposts) ==
    /\ last' = Ended(delivery_id[w], exit, nsaves, nposts)
    /\ pending' = AfterTask(delivery_id[w])
    /\ pc' = [pc EXCEPT ![w] = "idle"]
    /\ delivery_id' = [delivery_id EXCEPT ![w] = NoId]
    /\ delivery' = [delivery EXCEPT ![w] = NoDelivery]
    /\ posts' = [posts EXCEPT ![w] = 0]
    /\ caught' = [caught EXCEPT ![w] = FALSE]

\* As GetDelivery, but re-queueing the task (raise self.retry()) where the
\* code returns on DoesNotExist.
GetDeliveryRetries(w) ==
    /\ pc[w] = "get"
    /\ IF delivery_id[w] \in Attempts
       THEN /\ delivery' = [delivery EXCEPT ![w] = db[delivery_id[w]]]
            /\ pc' = [pc EXCEPT ![w] = "check"]
            /\ UNCHANGED <<pending, delivery_id, posts, caught, last, log>>
       ELSE /\ log' = log \cup {NotFoundLog(delivery_id[w])}
            /\ last' = Ended(delivery_id[w], "not_found", 0, posts[w])
            /\ pending' = [pending EXCEPT ![delivery_id[w]] = @ + 1]
            /\ pc' = [pc EXCEPT ![w] = "idle"]
            /\ delivery_id' = [delivery_id EXCEPT ![w] = NoId]
            /\ UNCHANGED <<delivery, posts, caught>>
    /\ UNCHANGED <<db, is_active, has_secret, clock>>

\* delivery = WebhookDeliveryAttempt.objects.get(id=delivery_id)
\* except DoesNotExist: logger.error(...); return
GetDelivery(w) ==
    /\ pc[w] = "get"
    /\ IF delivery_id[w] \in Attempts
       THEN /\ delivery' = [delivery EXCEPT ![w] = db[delivery_id[w]]]
            /\ pc' = [pc EXCEPT ![w] = "check"]
            /\ UNCHANGED <<pending, delivery_id, posts, caught, last, log>>
       ELSE /\ log' = log \cup {NotFoundLog(delivery_id[w])}
            /\ Return(w, "not_found", 0, posts[w])
    /\ UNCHANGED <<db, is_active, has_secret, clock>>

\* if not subscription.is_active: status, error_message, save(), return
CheckSubscription(w) ==
    /\ pc[w] = "check"
    /\ IF is_active[webhook_subscription[delivery_id[w]]]
       THEN /\ pc' = [pc EXCEPT ![w] = "sign"]
            /\ UNCHANGED <<db, pending, delivery_id, delivery, posts, caught, last>>
       ELSE /\ db' = Saved(delivery_id[w], MarkInactive(delivery[w]))
            /\ Return(w, "inactive", 1, posts[w])
    /\ UNCHANGED <<is_active, has_secret, clock, log>>

\* As SignPayload, but counting the attempt and saving it as a FAILURE before
\* the missing secret ends the invocation.
SignPayloadRecordsFailure(w) ==
    /\ pc[w] = "sign"
    /\ IF has_secret[webhook_subscription[delivery_id[w]]]
       THEN /\ delivery' = [delivery EXCEPT ![w] = BeginAttempt(@, Now)]
            /\ pc' = [pc EXCEPT ![w] = "post"]
            /\ UNCHANGED <<db, pending, delivery_id, posts, caught, last>>
       ELSE /\ db' = Saved(delivery_id[w],
                           MarkFailure(BeginAttempt(delivery[w], Now)))
            /\ Return(w, "raised", 1, posts[w])
    /\ UNCHANGED <<is_active, has_secret, clock, log>>

\* active_secret = subscription.secrets.filter(is_active=True)...first()
\* signature = sign_payload(webhook_data, active_secret.get_secret())
\* and then the counter and last_attempt_at are updated in memory.
\* With no active secret first() is None and .get_secret() raises.
SignPayload(w) ==
    /\ pc[w] = "sign"
    /\ IF has_secret[webhook_subscription[delivery_id[w]]]
       THEN /\ delivery' = [delivery EXCEPT ![w] = BeginAttempt(@, Now)]
            /\ pc' = [pc EXCEPT ![w] = "post"]
            /\ UNCHANGED <<pending, delivery_id, posts, caught, last>>
       ELSE Return(w, "raised", 0, posts[w])
    /\ UNCHANGED <<db, is_active, has_secret, clock, log>>

\* response = requests.post(...) returns a response r = <<status_code, text>>.
\* 2xx: status, succeeded_at, save(), return. Otherwise status = FAILURE and
\* the code goes on to the save() after the try block.
PostResponse(w, r) ==
    /\ pc[w] = "post"
    /\ LET d == RecordResponse(delivery[w], r[1], r[2]) IN
       IF Is2xx(r[1])
       THEN /\ db' = Saved(delivery_id[w], MarkSuccess(d, Now))
            /\ Return(w, "success", 1, posts[w] + 1)
       ELSE /\ delivery' = [delivery EXCEPT ![w] = MarkFailure(d)]
            /\ posts' = [posts EXCEPT ![w] = @ + 1]
            /\ pc' = [pc EXCEPT ![w] = "save"]
            /\ UNCHANGED <<db, pending, delivery_id, caught, last>>
    /\ UNCHANGED <<is_active, has_secret, clock, log>>

\* As PostException, but recording an empty body for the failed send.
PostExceptionAppends(w) ==
    /\ pc[w] = "post"
    /\ delivery' = [delivery EXCEPT ![w] =
                       [MarkFailure(@) EXCEPT !.response_body_list = Append(@, << >>)]]
    /\ posts' = [posts EXCEPT ![w] = @ + 1]
    /\ caught' = [caught EXCEPT ![w] = TRUE]
    /\ pc' = [pc EXCEPT ![w] = "save"]
    /\ UNCHANGED <<db, is_active, has_secret, pending, clock, delivery_id,
                   last, log>>

\* As PostException, but sending once more before giving up.
PostExceptionLoops(w) ==
    /\ pc[w] = "post"
    /\ delivery' = [delivery EXCEPT ![w] = MarkFailure(@)]
    /\ posts' = [posts EXCEPT ![w] = @ + 1]
    /\ caught' = [caught EXCEPT ![w] = TRUE]
    /\ pc' = [pc EXCEPT ![w] = IF posts[w] = 0 THEN "post" ELSE "save"]
    /\ UNCHANGED <<db, is_active, has_secret, pending, clock, delivery_id,
                   last, log>>

\* requests.post raises requests.RequestException: status = FAILURE.
PostException(w) ==
    /\ pc[w] = "post"
    /\ delivery' = [delivery EXCEPT ![w] = MarkFailure(@)]
    /\ posts' = [posts EXCEPT ![w] = @ + 1]
    /\ caught' = [caught EXCEPT ![w] = TRUE]
    /\ pc' = [pc EXCEPT ![w] = "save"]
    /\ UNCHANGED <<db, is_active, has_secret, pending, clock, delivery_id,
                   last, log>>

\* delivery.save(), then the last-retry check and its logger.error.
SaveDelivery(w) ==
    /\ pc[w] = "save"
    /\ db' = Saved(delivery_id[w], delivery[w])
    /\ log' = IF IsLastRetry(delivery[w])
              THEN log \cup {FinalFailureLog(delivery_id[w], delivery[w])}
              ELSE log
    /\ Return(w, IF caught[w] THEN "transport_failure" ELSE "http_failure",
              1, posts[w])
    /\ UNCHANGED <<is_active, has_secret, clock>>

(* -------------------- subscription management (external) --------------- *)

\* The owner enables or disables the subscription.
SetSubscriptionActive(s, b) ==
    /\ is_active[s] # b
    /\ is_active' = [is_active EXCEPT ![s] = b]
    /\ UNCHANGED <<db, has_secret, pending, clock, pc, delivery_id, delivery,
                   posts, caught, last, log>>

\* Secret rotation leaves the subscription with or without an active secret.
SetSecretActive(s, b) ==
    /\ has_secret[s] # b
    /\ has_secret' = [has_secret EXCEPT ![s] = b]
    /\ UNCHANGED <<db, is_active, pending, clock, pc, delivery_id, delivery,
                   posts, caught, last, log>>

Next ==
    \/ \E id \in DeliveryIds : Enqueue(id)
    \/ \E w \in Workers, id \in DeliveryIds : Start(w, id)
    \/ \E w \in Workers : GetDelivery(w)
    \/ \E w \in Workers : CheckSubscription(w)
    \/ \E w \in Workers : SignPayload(w)
    \/ \E w \in Workers, r \in Responses : PostResponse(w, r)
    \/ \E w \in Workers : PostException(w)
    \/ \E w \in Workers : SaveDelivery(w)
    \/ \E s \in Subscriptions, b \in BOOLEAN : SetSubscriptionActive(s, b)
    \/ \E s \in Subscriptions, b \in BOOLEAN : SetSecretActive(s, b)

Spec == Init /\ [][Next]_vars

(* ------------- one delivery, one worker, many invocations -------------- *)

\* The invocations of one delivery by one worker.
StartAttempt == Invoke("w1", "a1", MaxRetryInvocations)

\* What the worker does once it has taken a message.
TaskStep(w) ==
    \/ GetDelivery(w)
    \/ CheckSubscription(w)
    \/ SignPayload(w)
    \/ \E r \in Responses : PostResponse(w, r)
    \/ PostException(w)
    \/ SaveDelivery(w)

RetryNext ==
    \/ Enqueue("a1")
    \/ StartAttempt
    \/ GetDelivery("w1")
    \/ CheckSubscription("w1")
    \/ SignPayload("w1")
    \/ \E r \in Responses : PostResponse("w1", r)
    \/ PostException("w1")
    \/ SaveDelivery("w1")
    \/ \E s \in Subscriptions, b \in BOOLEAN : SetSubscriptionActive(s, b)
    \/ \E s \in Subscriptions, b \in BOOLEAN : SetSecretActive(s, b)

RetrySpec == Init /\ [][RetryNext]_vars

\* The queue delivers every waiting message and a started task runs to its
\* end; nothing obliges a caller to enqueue again.
RetryFairSpec ==
    RetrySpec /\ WF_vars(StartAttempt) /\ WF_vars(TaskStep("w1"))

(* ============================== claims =============================== *)

\* Worker w's invocation ends in this step.
Returns(w) == pc[w] # "idle" /\ pc'[w] = "idle"

\* The exits on which requests.post was called and a response came back,
\* and those on which the send was reached at all.
ResponseExits == {"success", "http_failure"}
SendExits == {"success", "http_failure", "transport_failure"}

IsPrefix(s, t) == Len(s) <= Len(t) /\ SubSeq(t, 1, Len(s)) = s

\* C1: an invocation that receives an HTTP response with status code s
\* persists SUCCESS with succeeded_at set when 200 <= s < 300, and FAILURE
\* with succeeded_at unset for any other s.
C1_ResponseDecidesStatus ==
    [][\A w \in Workers :
         (Returns(w) /\ last'.exit \in ResponseExits) =>
            LET row == db'[delivery_id[w]] IN
            IF Is2xx(row.response_status_code)
            THEN row.status = SUCCESS /\ row.succeeded_at # None
            ELSE row.status = FAILURE /\ row.succeeded_at = None]_vars

\* C2: once the status of a delivery is SUCCESS, no later step changes it
\* away from SUCCESS.
C2_SuccessIsTerminal ==
    [][\A a \in Attempts :
         db[a].status = SUCCESS => db'[a].status = SUCCESS]_vars

\* The last invocation of delivery a1 returned with FAILURE persisted, its
\* counter is below the ceiling, and the model may still start invocations.
FailedBelowCeiling ==
    /\ last.id = "a1"
    /\ last.exit \in {"http_failure", "transport_failure"}
    /\ db["a1"].status = FAILURE
    /\ db["a1"].attempt_count < max_retries
    /\ ~InFlight("a1")
    /\ clock < MaxRetryInvocations

\* C3: a delivery whose invocation returned with FAILURE below the ceiling
\* of 5 is eventually invoked again.
C3_FailureIsRetried ==
    FailedBelowCeiling ~> InFlight("a1")

\* C4: the attempt counter of a delivery never exceeds the ceiling of 5.
C4_AttemptCountAtMostCeiling ==
    \A a \in Attempts : db[a].attempt_count <= max_retries

\* C5 as stated: every invocation that finds the record leaves the counter
\* strictly greater than before.
C5_EveryInvocationIncrements ==
    [][\A w \in Workers :
         (Returns(w) /\ last'.exit # "not_found") =>
            db'[delivery_id[w]].attempt_count > db[delivery_id[w]].attempt_count]_vars

\* C5 amended: the counter never decreases; an invocation that reaches the
\* HTTP send leaves it exactly one greater than before, and one that stops
\* at the inactive-subscription guard or aborts at signing leaves it as it was.
C5_CounterIncreasesPerSend ==
    [][/\ \A a \in Attempts : db'[a].attempt_count >= db[a].attempt_count
       /\ \A w \in Workers :
            (Returns(w) /\ delivery_id[w] \in Attempts) =>
               LET before == db[delivery_id[w]].attempt_count
                   after  == db'[delivery_id[w]].attempt_count IN
               IF last'.exit \in SendExits
               THEN after = before + 1
               ELSE after = before]_vars

C5_Witness ==
    \E a \in Attempts :
        /\ db[a].attempt_count >= 2
        /\ last.id = a /\ last.exit \in SendExits

\* C6: with the subscription inactive, the invocation persists status
\* FAILURE (the value delivery failures use) and a non-empty error message,
\* and makes no HTTP call.
C6_InactiveIsFailure ==
    [][\A w \in Workers :
         (Returns(w) /\ last'.exit = "inactive") =>
            /\ db'[delivery_id[w]].status = FAILURE
            /\ db'[delivery_id[w]].error_message # ""
            /\ last'.posts = 0]_vars

\* C7: for an id that resolves to no record the invocation changes no row,
\* calls neither requests.post nor save(), logs the condition, ends, and
\* leaves no further invocation of that id scheduled.
C7_MissingRecordIsNoOp ==
    [][\A w \in Workers :
         (Returns(w) /\ delivery_id[w] \notin Attempts) =>
            /\ last'.exit = "not_found"
            /\ db' = db
            /\ last'.posts = 0
            /\ last'.saves = 0
            /\ NotFoundLog(delivery_id[w]) \in log'
            /\ pending' = pending]_vars

C7_Witness ==
    /\ last.exit = "not_found"
    /\ last.id \in MissingIds
    /\ NotFoundLog(last.id) \in log

\* C8 as stated: after a transport failure the persisted status is FAILURE,
\* response_status_code is unset, response_body_list is as before and
\* attempt_count is one greater than before.
C8_TransportFailureCodeUnset ==
    [][\A w \in Workers :
         (Returns(w) /\ last'.exit = "transport_failure") =>
            LET before == db[delivery_id[w]]
                after  == db'[delivery_id[w]] IN
            /\ after.status = FAILURE
            /\ after.response_status_code = None
            /\ after.response_body_list = before.response_body_list
            /\ after.attempt_count = before.attempt_count + 1]_vars

\* C8 amended: after a transport failure the persisted status is FAILURE,
\* response_status_code and response_body_list are as before the invocation
\* (so the code is unset only if no earlier invocation received a response),
\* and attempt_count is one greater than before.
C8_TransportFailureKeepsResponse ==
    [][\A w \in Workers :
         (Returns(w) /\ last'.exit = "transport_failure") =>
            LET before == db[delivery_id[w]]
                after  == db'[delivery_id[w]] IN
            /\ after.status = FAILURE
            /\ after.response_status_code = before.response_status_code
            /\ after.response_body_list = before.response_body_list
            /\ after.attempt_count = before.attempt_count + 1]_vars

C8_Witness ==
    /\ last.exit = "transport_failure"
    /\ last.id \in Attempts
    /\ db[last.id].status = FAILURE
    /\ db[last.id].response_status_code # None
    /\ db[last.id].attempt_count > Len(db[last.id].response_body_list)

\* C9: the response history only grows at its end: an invocation that
\* receives a response appends exactly one entry after the existing ones,
\* any other invocation leaves the list as it was, and no step removes,
\* reorders or overwrites an entry.
C9_HistoryAppendOnly ==
    [][/\ \A a \in Attempts :
            IsPrefix(db[a].response_body_list, db'[a].response_body_list)
       /\ \A w \in Workers :
            (Returns(w) /\ delivery_id[w] \in Attempts) =>
               LET before == db[delivery_id[w]].response_body_list
                   after  == db'[delivery_id[w]].response_body_list IN
               IF last'.exit \in ResponseExits
               THEN Len(after) = Len(before) + 1
               ELSE after = before]_vars

C9_Witness ==
    \E a \in Attempts :
        /\ Len(db[a].response_body_list) >= 3
        /\ db[a].response_body_list[1] # db[a].response_body_list[2]
        /\ last.id = a /\ last.exit \in ResponseExits

\* C10: every invocation that loads an existing record calls save() exactly
\* once, and that save persists the counter and last_attempt_at of the
\* invocation along with its status.
C10_SavedExactlyOnce ==
    [][\A w \in Workers :
         (Returns(w) /\ delivery_id[w] \in Attempts) =>
            LET before == db[delivery_id[w]]
                after  == db'[delivery_id[w]] IN
            /\ last'.saves = 1
            /\ after.status # PENDING
            /\ last'.exit \in SendExits =>
                  /\ after.attempt_count = before.attempt_count + 1
                  /\ after.last_attempt_at # None
            /\ last'.exit \in ResponseExits =>
                  /\ after.response_status_code # None
                  /\ Len(after.response_body_list) =
                        Len(before.response_body_list) + 1]_vars

\* C11: an invocation that persists status FAILURE with the attempt counter
\* at or above the ceiling emits, in the step that saves, a new error record
\* carrying the attempt id, the destination URL, the event type and the status.
C11_FinalFailureLogged ==
    [][\A w \in Workers :
         (/\ Returns(w)
          /\ delivery_id[w] \in Attempts
          /\ last'.saves = 1
          /\ db'[delivery_id[w]].status = FAILURE
          /\ db'[delivery_id[w]].attempt_count >= max_retries) =>
            \E rec \in log' \ log :
               /\ rec.kind = "final_failure"
               /\ rec.id = delivery_id[w]
               /\ rec.url = url[webhook_subscription[delivery_id[w]]]
               /\ rec.event = webhook_event_type[delivery_id[w]]
               /\ rec.status = db'[delivery_id[w]].status]_vars

C11_Witness ==
    /\ last.id \in Attempts
    /\ last.exit \in {"http_failure", "transport_failure"}
    /\ db[last.id].status = FAILURE
    /\ db[last.id].attempt_count = max_retries
    /\ \E rec \in log :
          /\ rec.kind = "final_failure"
          /\ rec.id = last.id
          /\ rec.attempts = max_retries

\* C12: an invocation that ends with SUCCESS, or early at a guard (record
\* missing, subscription inactive), puts no further invocation of its
\* delivery id on the queue and starts none.
C12_NoRetryAfterSuccessOrGuard ==
    [][\A w \in Workers :
         (Returns(w) /\ last'.exit \in {"success", "not_found", "inactive"}) =>
            /\ pending' = pending
            /\ ~InFlight(delivery_id[w])']_vars

C12_Witness ==
    /\ last.exit \in {"success", "inactive"}
    /\ last.id \in Attempts
    /\ pending[last.id] = 0
    /\ ~InFlight(last.id)

\* C13: one invocation calls requests.post at most once, and whatever its
\* outcome it neither queues another invocation nor starts one itself.
C13_SinglePostNoSelfRetry ==
    [][\A w \in Workers :
         /\ posts'[w] <= 1
         /\ Returns(w) =>
               /\ last'.posts <= 1
               /\ last'.exit \in SendExits => last'.posts = 1
               /\ pending' = pending
               /\ clock' = clock]_vars

C13_Witness ==
    /\ last.exit = "transport_failure"
    /\ last.posts = 1
    /\ QueueLength = 0

\* C14: transport failure, non-2xx response and inactive subscription end in
\* a normal return with the outcome saved as the status; the missing record
\* is the only case that ends as an error, and no other path raises.
C14_OnlyMissingRecordIsError ==
    [][\A w \in Workers :
         Returns(w) =>
            /\ last'.exit \in {"not_found", "raised"} =>
                  delivery_id[w] \in MissingIds
            /\ last'.exit \in {"inactive", "http_failure", "transport_failure"} =>
                  /\ last'.saves = 1
                  /\ db'[delivery_id[w]].status \in {FAILURE, FailedLiteral}]_vars

\* The first n units of a text, or all of it when it has no more than n.
FirstUnits(text, n) ==
    IF Len(text) > n THEN [i \in 1..n |-> text[i]] ELSE text

\* C15: the body stored by an invocation that received a response is the
\* first BodyLimit units of the received body when that is longer, and the
\* received body itself otherwise; no stored entry is longer than BodyLimit.
C15_BodyTruncated ==
    [][/\ \A w \in Workers : \A r \in Responses :
            LET d == IF pc'[w] = "idle" THEN db'[delivery_id[w]]
                                        ELSE delivery'[w]
                entry == d.response_body_list[Len(d.response_body_list)]
            IN  (/\ pc[w] = "post"
                 /\ pc'[w] # "post"
                 /\ ~caught'[w]
                 /\ d.response_status_code = r[1]) =>
                   /\ Len(d.response_body_list) =
                         Len(delivery[w].response_body_list) + 1
                   /\ entry = FirstUnits(r[2], BodyLimit)
                   /\ Len(r[2]) > BodyLimit => Len(entry) = BodyLimit
                   /\ Len(r[2]) <= BodyLimit => entry = r[2]
       /\ \A a \in Attempts :
            \A i \in 1..Len(db'[a].response_body_list) :
               Len(db'[a].response_body_list[i]) <= BodyLimit]_vars

\* A body longer than the limit was received and stored cut to the limit.
C15_Witness ==
    /\ last.exit \in ResponseExits
    /\ last.id \in Attempts
    /\ LET d == db[last.id] IN
          /\ \E r \in Responses :
                /\ r[1] = d.response_status_code
                /\ Len(r[2]) > BodyLimit
          /\ Len(d.response_body_list) >= 1
          /\ Len(d.response_body_list[Len(d.response_body_list)]) = BodyLimit

\* The record held by worker w is the stored row of its own delivery id with
\* only the changes w itself has made so far.
OwnRowOnly(w) ==
    LET row == db[delivery_id[w]]
        d   == delivery[w]
    IN  CASE pc[w] \in {"check", "sign"} -> d = row
          [] pc[w] = "post" ->
                \E t \in 1..clock :
                   d = [row EXCEPT !.attempt_count = @ + 1, !.last_attempt_at = t]
          [] pc[w] = "save" ->
                /\ d.attempt_count = row.attempt_count + 1
                /\ d.last_attempt_at \in 1..clock
                /\ d.status = FAILURE
                /\ d.error_message = row.error_message
                /\ d.succeeded_at = row.succeeded_at
                /\ IF caught[w]
                   THEN /\ d.response_status_code = row.response_status_code
                        /\ d.response_body_list = row.response_body_list
                   ELSE \E r \in Responses :
                           /\ d.response_status_code = r[1]
                           /\ d.response_body_list =
                                 Append(row.response_body_list,
                                        FirstUnits(r[2], BodyLimit))
          [] OTHER -> TRUE

\* C16: invocations on distinct records do not interfere. A step changes a
\* stored row only when an invocation on that very row ends, and the row an
\* invocation writes is computed from the stored row of its own id alone, so
\* it is the row a run with no other invocation in progress would write
\* (timestamps apart).
C16_DistinctRecordsIndependent ==
    [][/\ \A a \in Attempts :
            db'[a] # db[a] =>
               \E w \in Workers : delivery_id[w] = a /\ Returns(w)
       /\ \A w \in Workers : OwnRowOnly(w)'
       /\ \A w \in Workers :
            (Returns(w) /\ last'.saves = 1) =>
               LET row == db[delivery_id[w]]
                   new == db'[delivery_id[w]]
               IN  CASE last'.exit = "inactive" ->
                          new = [row EXCEPT !.status = FailedLiteral,
                                            !.error_message = InactiveMessage]
                     [] last'.exit = "success" ->
                          \E r \in Responses : \E t \in 1..clock :
                             new = [row EXCEPT
                                      !.attempt_count = @ + 1,
                                      !.last_attempt_at = t,
                                      !.status = SUCCESS,
                                      !.succeeded_at = clock,
                                      !.response_status_code = r[1],
                                      !.response_body_list =
                                          Append(@, FirstUnits(r[2], BodyLimit))]
                     [] OTHER -> new = delivery[w]]_vars

\* Two invocations on distinct records overlapped: the one on a1 stamped its
\* attempt after the one on a2 had started, and ended while that one was
\* still waiting to save.
C16_Witness ==
    /\ last.id = "a1"
    /\ last.saves = 1
    /\ db["a1"].last_attempt_at = 2
    /\ \E w \in Workers :
          /\ delivery_id[w] = "a2"
          /\ pc[w] = "save"
          /\ delivery[w].attempt_count = 1

\* C17: with the subscription active and no active secret the invocation
\* ends at signing with an exception, before any change: the stored row
\* (counter, last_attempt_at, status and the rest) is as it was, no HTTP call
\* was made and nothing was saved.
C17_NoSecretAbortsBeforeMutation ==
    [][\A w \in Workers :
         (/\ pc[w] = "sign"
          /\ pc'[w] # "sign"
          /\ ~has_secret[webhook_subscription[delivery_id[w]]]) =>
            /\ pc'[w] = "idle"
            /\ last' = Ended(delivery_id[w], "raised", 0, 0)
            /\ db' = db
            /\ delivery[w] = db[delivery_id[w]]]_vars

\* An attempt that had failed once was invoked again without an active
\* secret and ended at signing.
C17_Witness ==
    /\ last.exit = "raised"
    /\ last.id \in Attempts
    /\ last.saves = 0
    /\ last.posts = 0
    /\ ~has_secret[webhook_subscription[last.id]]
    /\ db[last.id].attempt_count = 1
    /\ db[last.id].status = FAILURE

\* attempt_count minus the number of stored response bodies.
Unanswered(row) == row.attempt_count - Len(row.response_body_list)

\* C18: a stored row never has more response bodies than counted attempts;
\* the difference is zero at first and grows by one exactly in an invocation
\* that was counted and received no response, so the two are equal exactly
\* when every counted invocation received a response.
C18_HistoryAtMostCounter ==
    [][/\ \A a \in Attempts :
            Len(db'[a].response_body_list) <= db'[a].attempt_count
       /\ \A a \in Attempts :
            \A w \in Workers :
               (Returns(w) /\ delivery_id[w] = a) =>
                  Unanswered(db'[a]) =
                     Unanswered(db[a])
                        + (IF last'.exit = "transport_failure" THEN 1 ELSE 0)
       /\ \A a \in Attempts :
            (\A w \in Workers : ~(Returns(w) /\ delivery_id[w] = a)) =>
               Unanswered(db'[a]) = Unanswered(db[a])]_vars

\* One counted invocation was answered and another was not.
C18_Witness ==
    \E a \in Attempts :
       /\ db[a].attempt_count >= 2
       /\ Len(db[a].response_body_list) >= 1
       /\ Len(db[a].response_body_list) < db[a].attempt_count

\* C19: a stored row with status SUCCESS has succeeded_at set, a response
\* code from 200 up to but not including 300, a counter of at least one and
\* at least one stored response body.
C19_SuccessRowIsComplete ==
    \A a \in Attempts :
       db[a].status = SUCCESS =>
          /\ db[a].succeeded_at # None
          /\ db[a].response_status_code >= 200
          /\ db[a].response_status_code < 300
          /\ db[a].attempt_count >= 1
          /\ Len(db[a].response_body_list) >= 1

C19_Witness ==
    \E a \in Attempts :
       /\ db[a].status = SUCCESS
       /\ db[a].attempt_count = 2
       /\ db[a].response_status_code = 299

\* C20: an invocation that stops at the inactive-subscription guard changes
\* only status and error_message of the stored row: attempt_count,
\* last_attempt_at, succeeded_at, response_status_code and
\* response_body_list are as before.
C20_InactiveChangesOnlyStatus ==
    [][\A w \in Workers :
         (Returns(w) /\ last'.exit = "inactive") =>
            LET row == db[delivery_id[w]]
                new == db'[delivery_id[w]]
            IN  /\ new.attempt_count = row.attempt_count
                /\ new.last_attempt_at = row.last_attempt_at
                /\ new.succeeded_at = row.succeeded_at
                /\ new.response_status_code = row.response_status_code
                /\ new.response_body_list = row.response_body_list
                /\ \A a \in Attempts \ {delivery_id[w]} : db'[a] = db[a]]_vars

\* An attempt that had been sent once was stopped at the guard.
C20_Witness ==
    /\ last.exit = "inactive"
    /\ last.id \in Attempts
    /\ db[last.id].status = FailedLiteral
    /\ db[last.id].error_message = InactiveMessage
    /\ db[last.id].attempt_count = 1
    /\ Len(db[last.id].response_body_list) = 1

====
